---- MODULE Spec2Model ----
(***************************************************************************)
(* MagicLens: the operation-intent resolver behind /api/agent.             *)
(*                                                                         *)
(* Message texts are TLA+ strings; TLC evaluates Len, SubSeq, Head, Tail   *)
(* and \o on strings, so the regular expressions and the includes() scans  *)
(* of route.ts are evaluated character by character on the real text.      *)
(***************************************************************************)
EXTENDS Integers, Sequences, FiniteSets, TLC

(***************************************************************************)
(* Bounds of the model.                                                    *)
(***************************************************************************)
\* longest message, in phrases of a lexicon, the resolver is applied to
MaxPhrases == 2

(***************************************************************************)
(* JavaScript string primitives.                                           *)
(***************************************************************************)
UpperLetters == "ABCDEFGHIJKLMNOPQRSTUVWXYZ"
LowerLetters == "abcdefghijklmnopqrstuvwxyz"
DigitChars == "0123456789"

CharAt(s, i) == SubSeq(s, i, i)

CharsOf(s) == {CharAt(s, i) : i \in 1..Len(s)}

\* \w of a JavaScript regular expression
WordChars == CharsOf(UpperLetters) \cup CharsOf(LowerLetters) \cup CharsOf(DigitChars) \cup {"_"}

\* \s of a JavaScript regular expression (the members a message of the model can hold)
WhiteSpace == {" ", "\n", "\t"}

\* the characters '.' does not match
LineTerminators == {"\n"}

\* the value of an optional field that is not set
undefined == "<undefined>"

\* the JSON value null, where a string is expected
null == "<null>"

ToLowerChar(c) ==
  IF c \in CharsOf(UpperLetters)
    THEN CharAt(LowerLetters, CHOOSE i \in 1..Len(UpperLetters) : CharAt(UpperLetters, i) = c)
    ELSE c

RECURSIVE toLowerCase(_)
toLowerCase(s) == IF s = "" THEN "" ELSE ToLowerChar(Head(s)) \o toLowerCase(Tail(s))

\* s.substring at i equals lit
MatchesAt(s, i, lit) == i >= 1 /\ i + Len(lit) - 1 <= Len(s) /\ SubSeq(s, i, i + Len(lit) - 1) = lit

\* String.prototype.includes
includes(s, sub) == \E i \in 1..(Len(s) - Len(sub) + 1) : MatchesAt(s, i, sub)

IsWordCharAt(s, i) == i \in 1..Len(s) /\ CharAt(s, i) \in WordChars

\* \b holds between the characters i-1 and i
WordBoundary(s, i) == IsWordCharAt(s, i - 1) # IsWordCharAt(s, i)

\* /\b(a1|a2|...)\b/.test(s) matches the alternative a at position i
WholeWordAt(s, i, a) == MatchesAt(s, i, a) /\ WordBoundary(s, i) /\ WordBoundary(s, i + Len(a))

\* /\b(a1|a2|...)\b/.test(s)
TestWord(s, alts) == \E i \in 1..Len(s) : \E a \in alts : WholeWordAt(s, i, a)

\* every character of s[from..to] is matched by '.'
DotRun(s, from, to) == \A k \in from..to : CharAt(s, k) \notin LineTerminators

\* /\b(v1|v2|...)\b.*\b(c1|c2|...)\b/.test(s)
TestWordThenWord(s, verbs, conns) ==
  \E i \in 1..Len(s) : \E v \in verbs :
    /\ WholeWordAt(s, i, v)
    /\ \E j \in (i + Len(v))..Len(s) : \E c \in conns :
         WholeWordAt(s, j, c) /\ DotRun(s, i + Len(v), j - 1)


(***************************************************************************)
(* String.prototype.match with one or two lazy capture groups, evaluated   *)
(* in the order a backtracking matcher tries its choices: leftmost start,  *)
(* alternatives in order, \s+ greedy, the optional article first present   *)
(* then absent, the lazy groups shortest first.                            *)
(***************************************************************************)
Max(S) == CHOOSE x \in S : \A y \in S : y <= x
Min(S) == CHOOSE x \in S : \A y \in S : x <= y

\* length of the longest run of \s that starts at p
WsRun(s, p) ==
  Max({k \in 0..(Len(s) - p + 1) : \A j \in p..(p + k - 1) : CharAt(s, j) \in WhiteSpace})

\* \s+ followed by a literal: the literal starts with a character that is not \s,
\* so \s+ takes the whole run and the literal starts here
AfterSpace(s, p) == p + WsRun(s, p)

\* \s+lit at position t
SpaceThen(s, t, lit) == WsRun(s, t) >= 1 /\ MatchesAt(s, AfterSpace(s, t), lit)

\* <<hi, hi-1, ..., lo>>
Descending(hi, lo) == [k \in 1..(hi - lo + 1) |-> hi - k + 1]

\* (?:a1\s+|a2\s+)? present, the article at r: where the group after it may start,
\* greedy \s+ first
RECURSIVE ArticleStarts(_, _, _, _)
ArticleStarts(s, r, articles, n) ==
  IF n > Len(articles) THEN << >>
  ELSE (IF MatchesAt(s, r, articles[n])
          THEN Descending(AfterSpace(s, r + Len(articles[n])), r + Len(articles[n]) + 1)
          ELSE << >>)
       \o ArticleStarts(s, r, articles, n + 1)

\* verb\s+(?:article\s+)?( : the positions at which the first group may start, in the
\* order they are tried; p is the position that follows the verb
GroupStarts(s, p, articles) ==
  IF WsRun(s, p) = 0 THEN << >>
  ELSE ArticleStarts(s, AfterSpace(s, p), articles, 1) \o Descending(AfterSpace(s, p), p + 1)

\* \s*$ at position t
RestIsSpace(s, t) == AfterSpace(s, t) = Len(s) + 1

\* (.+?)(?:\s*$) from q: the lengths that match
LazyEndLens(s, q) ==
  {L \in 1..(Len(s) - q + 1) : DotRun(s, q, q + L - 1) /\ RestIsSpace(s, q + L)}

\* \s+(.+?)(?:\s*$) at position u: the starts of the group, in the order they are tried
SecondStartsSeq(s, u) == Descending(AfterSpace(s, u), u + 1)

\* the starts (by index) at which the second group matches
SecondStarts(s, u) ==
  {m \in DOMAIN SecondStartsSeq(s, u) : LazyEndLens(s, SecondStartsSeq(s, u)[m]) # {}}

\* what follows the first group.  cont.kind = "tail": (?:\s+t1|\s+t2|\s*$) with the
\* literals cont.words; cont.kind = "conn": \s+(?:c1|c2|c3)\s+(.+?)(?:\s*$)
ConnsAt(s, t, conns) ==
  {n \in 1..Len(conns) :
     SpaceThen(s, t, conns[n]) /\ SecondStarts(s, AfterSpace(s, t) + Len(conns[n])) # {}}

TailAt(s, t, tails) ==
  (\E n \in 1..Len(tails) : SpaceThen(s, t, tails[n])) \/ RestIsSpace(s, t)

Follows(s, t, cont) ==
  IF cont.kind = "tail" THEN TailAt(s, t, cont.words) ELSE ConnsAt(s, t, cont.words) # {}

\* (.+?) from q followed by cont: the lengths that match
LazyLens(s, q, cont) ==
  {L \in 1..(Len(s) - q + 1) : DotRun(s, q, q + L - 1) /\ Follows(s, q + L, cont)}

\* the starts (by index in st) from which the first group and cont match
GoodStarts(s, st, cont) == {m \in DOMAIN st : LazyLens(s, st[m], cont) # {}}

\* the verbs (by index) that match at i and let the rest of the pattern match
VerbHits(s, i, verbs, articles, cont) ==
  {n \in 1..Len(verbs) :
     /\ MatchesAt(s, i, verbs[n])
     /\ GoodStarts(s, GroupStarts(s, i + Len(verbs[n]), articles), cont) # {}}

\* the positions at which the pattern matches
MatchStarts(s, verbs, articles, cont) ==
  {i \in 1..Len(s) : VerbHits(s, i, verbs, articles, cont) # {}}

\* the position that follows the verb of the match at i
VerbEnd(s, i, verbs, articles, cont) == i + Len(verbs[Min(VerbHits(s, i, verbs, articles, cont))])

\* the first start of st from which the rest matches
PickStart(s, st, cont) == st[Min(GoodStarts(s, st, cont))]

\* where the first group of the match at i starts
FirstGroupStart(s, i, verbs, articles, cont) ==
  PickStart(s, GroupStarts(s, VerbEnd(s, i, verbs, articles, cont), articles), cont)

\* the lazy first group from q: the shortest that lets cont match
FirstGroupEnd(s, q, cont) == q + Min(LazyLens(s, q, cont)) - 1

\* the second group, after the connector that follows position t
SecondGroupStart(s, t, conns) ==
  SecondStartsSeq(s, AfterSpace(s, t) + Len(conns[Min(ConnsAt(s, t, conns))]))
    [Min(SecondStarts(s, AfterSpace(s, t) + Len(conns[Min(ConnsAt(s, t, conns))])))]

SecondGroupFrom(s, q2) == SubSeq(s, q2, q2 + Min(LazyEndLens(s, q2)) - 1)

\* match[1] of the one-group pattern whose first group starts at q
GroupsOne(s, q, cont) == << SubSeq(s, q, FirstGroupEnd(s, q, cont)) >>

\* match[1], match[2] of the two-group pattern whose first group is s[q..e]
GroupsTwo(s, q, e, conns) ==
  << SubSeq(s, q, e), SecondGroupFrom(s, SecondGroupStart(s, e + 1, conns)) >>

\* s.match(/(?:v1|v2|..)\s+(?:a1\s+|a2\s+)?(.+?)(?:\s+t1|\s+t2|\s*$)/):
\* << >> for null, <<match[1]>> otherwise; hits is where the pattern matches
MatchOneFrom(s, hits, verbs, articles, cont) ==
  IF hits = {} THEN << >>
  ELSE GroupsOne(s, FirstGroupStart(s, Min(hits), verbs, articles, cont), cont)

MatchOne(s, verbs, articles, tails) ==
  MatchOneFrom(s, MatchStarts(s, verbs, articles, [kind |-> "tail", words |-> tails]),
               verbs, articles, [kind |-> "tail", words |-> tails])

\* s.match(/(?:v1|..)\s+(?:the\s+)?(.+?)\s+(?:c1|c2|c3)\s+(.+?)(?:\s*$)/):
\* << >> for null, <<match[1], match[2]>> otherwise; q is where match[1] starts
GroupsTwoFrom(s, q, cont) == GroupsTwo(s, q, FirstGroupEnd(s, q, cont), cont.words)

MatchTwoFrom(s, hits, verbs, articles, cont) ==
  IF hits = {} THEN << >>
  ELSE GroupsTwoFrom(s, FirstGroupStart(s, Min(hits), verbs, articles, cont), cont)

MatchTwo(s, verbs, articles, conns) ==
  MatchTwoFrom(s, MatchStarts(s, verbs, articles, [kind |-> "conn", words |-> conns]),
               verbs, articles, [kind |-> "conn", words |-> conns])

\* String.prototype.trim
Solid(s) == {i \in 1..Len(s) : CharAt(s, i) \notin WhiteSpace}

trim(s) == IF Solid(s) = {} THEN "" ELSE SubSeq(s, Min(Solid(s)), Max(Solid(s)))

(***************************************************************************)
(* types.ts                                                                *)
(***************************************************************************)
OperationTypes ==
  {"inpaint_remove", "inpaint_replace", "inpaint_add", "style_transfer", "generate_new", "camera_adjust"}

\* the optional fields color_palette, edit_mode and subject_description are not set
DEFAULT_FIBO_PARAMS ==
  [camera |-> [yaw |-> 0, pitch |-> 0, roll |-> 0, fov |-> 40],
   lighting |-> "studio_soft",
   color_palette |-> undefined,
   composition |-> "centered",
   edit_mode |-> undefined,
   subject_description |-> undefined,
   realism_level |-> "high",
   output_format |-> "hdr_16bit"]

\* JavaScript truthiness of a string-or-undefined value
Truthy(v) == v \notin {undefined, null, ""}

(***************************************************************************)
(* route.ts: mockAgentResponse, the rule-based resolver.                   *)
(***************************************************************************)
RemovalVerbs == <<"remove", "delete", "erase", "get rid of", "clear", "eliminate">>
ReplaceVerbs == <<"replace", "change", "swap", "turn", "convert">>
Connectors == <<"to", "into", "with">>
AddVerbs == <<"add", "put", "place", "insert", "include">>
CameraWords == <<"zoom", "rotate", "tilt", "angle", "pan">>
CameraExclusions == <<"add", "remove", "change", "style">>
CreationWords == <<"create", "generate", "imagine", "make me a", "design">>

Range(f) == {f[i] : i \in DOMAIN f}

IsRemoval(lower) == TestWord(lower, Range(RemovalVerbs))

\* IsReplace without "into" among the connectors
IsReplace_NoInto(lower) == TestWordThenWord(lower, Range(ReplaceVerbs), {"to", "with"})

IsReplace(lower) == TestWordThenWord(lower, Range(ReplaceVerbs), Range(Connectors))

IsAdd(lower) == TestWord(lower, Range(AddVerbs))

\* IsCameraOnly without the second test
IsCameraOnly_NoExclusions(lower) == TestWord(lower, Range(CameraWords))

IsCameraOnly(lower) ==
  TestWord(lower, Range(CameraWords)) /\ ~TestWord(lower, Range(CameraExclusions))

\* IsCreation that knows "generate" and "imagine" only
IsCreation_Short(lower) == TestWord(lower, {"generate", "imagine"})

IsCreation(lower) == TestWord(lower, Range(CreationWords))

\* Branch with the replace test ahead of the removal test
Branch_ReplaceFirst(lower, hasMask) ==
  IF IsReplace(lower) THEN "replace"
  ELSE IF IsRemoval(lower) THEN "remove"
  ELSE IF IsAdd(lower) THEN "add"
  ELSE IF IsCameraOnly(lower) THEN "camera"
  ELSE IF IsCreation(lower) /\ ~hasMask THEN "generate"
  ELSE "default"

\* which arm of the if / else-if chain runs
Branch(lower, hasMask) ==
  IF IsRemoval(lower) THEN "remove"
  ELSE IF IsReplace(lower) THEN "replace"
  ELSE IF IsAdd(lower) THEN "add"
  ELSE IF IsCameraOnly(lower) THEN "camera"
  ELSE IF IsCreation(lower) /\ ~hasMask THEN "generate"
  ELSE "default"

\* OperationOf with the add arm ignoring hasMask
OperationOf_AddAlways(branch, hasMask) ==
  CASE branch = "remove" -> "inpaint_remove"
    [] branch = "replace" -> "inpaint_replace"
    [] branch = "add" -> "inpaint_add"
    [] branch = "camera" -> "camera_adjust"
    [] branch = "generate" -> "generate_new"
    [] OTHER -> "style_transfer"

\* the operation each arm assigns
OperationOf(branch, hasMask) ==
  CASE branch = "remove" -> "inpaint_remove"
    [] branch = "replace" -> "inpaint_replace"
    [] branch = "add" -> (IF hasMask THEN "inpaint_add" ELSE "style_transfer")
    [] branch = "camera" -> "camera_adjust"
    [] branch = "generate" -> "generate_new"
    [] OTHER -> "style_transfer"

RemovalMatch(lower) == MatchOne(lower, RemovalVerbs, <<"the">>, <<"from", "in">>)

ReplaceMatch(lower) == MatchTwo(lower, ReplaceVerbs, <<"the">>, Connectors)

AddMatch(lower) == MatchOne(lower, AddVerbs, <<"a", "some">>, <<"here", "there", "in", "on">>)

\* the match the arm computes: << >> for null and for the arms without a match
MatchOf(branch, lower) ==
  CASE branch = "remove" -> RemovalMatch(lower)
    [] branch = "replace" -> ReplaceMatch(lower)
    [] branch = "add" -> AddMatch(lower)
    [] OTHER -> << >>

\* SubjectOf whose default arm leaves subject_description alone
SubjectOf_DefaultKeeps(branch, match, userMessage, currentParams) ==
  CASE branch \in {"remove", "add"} -> (IF match # << >> THEN trim(match[1]) ELSE userMessage)
    [] branch = "replace" ->
         (IF match # << >>
            THEN "Replace " \o match[1] \o " with " \o match[2]
            ELSE currentParams.subject_description)
    [] branch \in {"camera", "default"} -> currentParams.subject_description
    [] OTHER -> userMessage

\* SubjectOf whose replace arm falls back on the message as the other arms do
SubjectOf_ReplaceFallsBack(branch, match, userMessage, currentParams) ==
  CASE branch \in {"remove", "add"} -> (IF match # << >> THEN trim(match[1]) ELSE userMessage)
    [] branch = "replace" ->
         (IF match # << >>
            THEN "Replace " \o match[1] \o " with " \o match[2]
            ELSE userMessage)
    [] branch = "camera" -> currentParams.subject_description
    [] OTHER -> userMessage

\* updatedParams.subject_description after the classification arm
SubjectOf(branch, match, userMessage, currentParams) ==
  CASE branch \in {"remove", "add"} -> (IF match # << >> THEN trim(match[1]) ELSE userMessage)
    [] branch = "replace" ->
         (IF match # << >>
            THEN "Replace " \o match[1] \o " with " \o match[2]
            ELSE currentParams.subject_description)
    [] branch = "camera" -> currentParams.subject_description
    [] OTHER -> userMessage

\* prompt after the classification arm
PromptOf(branch, match, userMessage, subject) ==
  CASE branch = "remove" ->
         "Remove " \o subject \o " from the marked area and fill with natural background"
    [] branch = "replace" ->
         (IF match # << >>
            THEN "Replace " \o match[1] \o " with " \o match[2]
                   \o " in the marked area, blend naturally"
            ELSE userMessage)
    [] branch = "add" -> "Add " \o subject \o " in the marked area, blend seamlessly"
    [] OTHER -> userMessage

\* response after the classification arm (the leading emoji is left out)
ResponseOf(branch, subject) ==
  CASE branch = "remove" -> "I'll remove \"" \o subject \o "\" from the marked area. Click Generate!"
    [] branch = "replace" -> "I'll replace that for you. Click Generate!"
    [] branch = "add" -> "I'll add \"" \o subject \o "\" to the marked area. Click Generate!"
    [] branch = "camera" -> "Camera adjusted! Click Generate to see the new angle."
    [] branch = "generate" -> "I'll generate that for you. Click Generate!"
    [] OTHER -> "I'll apply those changes. Click Generate!"

MathMax(a, b) == IF a >= b THEN a ELSE b
MathMin(a, b) == IF a <= b THEN a ELSE b

\* the step "slight" / "hard" / neither select
YawStep(lower) == IF includes(lower, "slight") THEN 15 ELSE IF includes(lower, "hard") THEN 45 ELSE 30

\* YawLeft without the clamp
YawLeft_NoClamp(lower, yaw) ==
  IF includes(lower, "left") /\ ~includes(lower, "tilt")
    THEN yaw - YawStep(lower)
    ELSE yaw

\* if (left && !tilt) yaw = max(-180, yaw + amount)
YawLeft(lower, yaw) ==
  IF includes(lower, "left") /\ ~includes(lower, "tilt")
    THEN MathMax(-180, yaw - YawStep(lower))
    ELSE yaw

\* if (right && !copyright && !tilt) yaw = min(180, yaw + amount)
YawRight(lower, yaw) ==
  IF includes(lower, "right") /\ ~includes(lower, "copyright") /\ ~includes(lower, "tilt")
    THEN MathMin(180, yaw + YawStep(lower))
    ELSE yaw

\* FovIn without the floor
FovIn_NoFloor(lower, fov) ==
  IF includes(lower, "zoom in") \/ includes(lower, "closer") THEN fov - 15 ELSE fov

\* if ("zoom in" || "closer") fov = max(10, fov - 15)
FovIn(lower, fov) ==
  IF includes(lower, "zoom in") \/ includes(lower, "closer") THEN MathMax(10, fov - 15) ELSE fov

\* if ("zoom out" || "wider") fov = min(120, fov + 15)
FovOut(lower, fov) ==
  IF includes(lower, "zoom out") \/ includes(lower, "wider") THEN MathMin(120, fov + 15) ELSE fov

\* the camera after the four camera statements, in their order
\* CameraOf that builds the camera anew, pitch and roll at their defaults
CameraOf_Rebuilt(lower, camera) ==
  [yaw |-> YawRight(lower, YawLeft(lower, camera.yaw)), pitch |-> 0, roll |-> 0,
   fov |-> FovOut(lower, FovIn(lower, camera.fov))]

CameraOf(lower, camera) ==
  [camera EXCEPT !.yaw = YawRight(lower, YawLeft(lower, camera.yaw)),
                 !.fov = FovOut(lower, FovIn(lower, camera.fov))]

\* LightingOf in which the first check that fires wins
LightingOf_FirstWins(lower, lighting) ==
  IF includes(lower, "dramatic") THEN "dramatic_side"
  ELSE IF includes(lower, "soft") THEN "studio_soft"
  ELSE IF includes(lower, "natural") \/ includes(lower, "daylight") THEN "natural_daylight"
  ELSE IF includes(lower, "neon") THEN "neon"
  ELSE lighting

\* the four lighting statements, in their order: the last that fires wins
LightingOf(lower, lighting) ==
  IF includes(lower, "neon") THEN "neon"
  ELSE IF includes(lower, "natural") \/ includes(lower, "daylight") THEN "natural_daylight"
  ELSE IF includes(lower, "soft") THEN "studio_soft"
  ELSE IF includes(lower, "dramatic") THEN "dramatic_side"
  ELSE lighting

\* the three color statements, in their order: the last that fires wins
ColorOf(lower, color) ==
  IF includes(lower, "vibrant") THEN "vibrant"
  ELSE IF includes(lower, "cool") \/ includes(lower, "cold") THEN "cool"
  ELSE IF includes(lower, "warm") THEN "warm"
  ELSE color

\* EditModeOf that knows inpaint_remove only
EditModeOf_RemoveOnly(operation) == IF operation = "inpaint_remove" THEN "mask" ELSE "full"

\* operation.startsWith('inpaint') ? 'mask' : 'full'
EditModeOf(operation) == IF MatchesAt(operation, 1, "inpaint") THEN "mask" ELSE "full"

\* NeedsMaskOf without the hasMask test
NeedsMaskOf_IgnoresMask(operation, hasMask) ==
  operation \in {"inpaint_remove", "inpaint_replace", "inpaint_add"}

\* ['inpaint_remove', 'inpaint_replace', 'inpaint_add'].includes(operation) && !hasMask
NeedsMaskOf(operation, hasMask) ==
  operation \in {"inpaint_remove", "inpaint_replace", "inpaint_add"} /\ ~hasMask

\* DrawFirstResponse without the || 'the area'
DrawFirstResponse_NoFallback(subject) ==
  "Please draw on " \o subject
    \o " first!\n\nUse the brush tool to mark the area, then click \"Generate\"."

\* the response that replaces the arm's response when needsMask
DrawFirstResponse(subject) ==
  "Please draw on " \o (IF Truthy(subject) THEN subject ELSE "the area")
    \o " first!\n\nUse the brush tool to mark the area, then click \"Generate\"."

\* The objects of one call.  objects holds the params objects by reference, each
\* with the reference of its camera in the camera field; cameras holds the
\* camera objects.  The caller's argument is "currentParams".
Allocate(currentParams) ==
  [objects |-> ("currentParams" :> [currentParams EXCEPT !.camera = "currentParams.camera"]),
   cameras |-> ("currentParams.camera" :> currentParams.camera)]

\* a spread that leaves the camera shared: { ...currentParams }
SpreadCopy_Shallow(heap) ==
  [objects |-> heap.objects @@ ("updatedParams" :> heap.objects["currentParams"]),
   cameras |-> heap.cameras]

\* const updatedParams = { ...currentParams, camera: { ...currentParams.camera } }
SpreadCopy(heap) ==
  [objects |->
     heap.objects @@
       ("updatedParams" :> [heap.objects["currentParams"] EXCEPT !.camera = "updatedParams.camera"]),
   cameras |->
     heap.cameras @@
       ("updatedParams.camera" :> heap.cameras[heap.objects["currentParams"].camera])]

\* Assign that parses the camera, lighting and color instructions in the arms
\* that are not inpaint arms only
Assign_FullImageOnly(heap, lower, operation, subject) ==
  [objects |->
     [heap.objects EXCEPT
        !["updatedParams"] =
          [@ EXCEPT !.subject_description = subject,
                    !.lighting = IF EditModeOf(operation) = "mask" THEN @ ELSE LightingOf(lower, @),
                    !.color_palette = IF EditModeOf(operation) = "mask" THEN @ ELSE ColorOf(lower, @),
                    !.edit_mode = EditModeOf(operation)]],
   cameras |->
     [heap.cameras EXCEPT
        ![heap.objects["updatedParams"].camera] =
          IF EditModeOf(operation) = "mask" THEN @ ELSE CameraOf(lower, @)]]

\* the assignments to updatedParams and to updatedParams.camera
Assign(heap, lower, operation, subject) ==
  [objects |->
     [heap.objects EXCEPT
        !["updatedParams"] =
          [@ EXCEPT !.subject_description = subject,
                    !.lighting = LightingOf(lower, @),
                    !.color_palette = ColorOf(lower, @),
                    !.edit_mode = EditModeOf(operation)]],
   cameras |->
     [heap.cameras EXCEPT ![heap.objects["updatedParams"].camera] = CameraOf(lower, @)]]

\* the value of a params object, its camera read through the reference
ValueOf(heap, ref) ==
  [heap.objects[ref] EXCEPT !.camera = heap.cameras[heap.objects[ref].camera]]

\* the returned object, from the values the statements computed; argument is the
\* caller's object as the call leaves it
ResolveResult(userMessage, hasMask, branch, match, operation, subject, heap) ==
  [returned |->
     [operation |-> operation,
      needsMask |-> NeedsMaskOf(operation, hasMask),
      params |-> ValueOf(heap, "updatedParams"),
      prompt |-> PromptOf(branch, match, userMessage, subject),
      response |-> IF NeedsMaskOf(operation, hasMask)
                     THEN DrawFirstResponse(subject)
                     ELSE ResponseOf(branch, subject)],
   argument |-> ValueOf(heap, "currentParams")]

\* operation and subject_description are known: the objects after the assignments
ResolveAssigned(userMessage, currentParams, hasMask, lower, branch, match, operation, subject) ==
  ResolveResult(userMessage, hasMask, branch, match, operation, subject,
                Assign(SpreadCopy(Allocate(currentParams)), lower, operation, subject))

\* the arm's match is known: its operation and subject_description
ResolveMatch(userMessage, currentParams, hasMask, lower, branch, match) ==
  ResolveAssigned(userMessage, currentParams, hasMask, lower, branch, match,
                  OperationOf(branch, hasMask),
                  SubjectOf(branch, match, userMessage, currentParams))

\* the arm is known: its match
ResolveBranch(userMessage, currentParams, hasMask, lower, branch) ==
  ResolveMatch(userMessage, currentParams, hasMask, lower, branch, MatchOf(branch, lower))

\* lower is known: the arm of the chain
ResolveLower(userMessage, currentParams, hasMask, lower) ==
  ResolveBranch(userMessage, currentParams, hasMask, lower, Branch(lower, hasMask))

\* one call: what it returns and what it leaves in the caller's object
mockAgentResponseCall(userMessage, currentParams, hasMask) ==
  ResolveLower(userMessage, currentParams, hasMask, toLowerCase(userMessage))

mockAgentResponse(userMessage, currentParams, hasMask) ==
  mockAgentResponseCall(userMessage, currentParams, hasMask).returned

(***************************************************************************)
(* route.ts: callOpenAI, the LLM-backed resolver.  What the upstream       *)
(* service answers is an input: upstream.kind tells how far the call gets, *)
(* upstream.parsed holds JSON.parse(content) when it is an object.  A      *)
(* field the object may lack is << >> when absent and <<v>> when present   *)
(* (needsMask, params) or undefined when absent (the string fields).       *)
(***************************************************************************)
\* fetch rejects; !response.ok; data.choices is missing; choices is empty;
\* content is ""; JSON.parse(content) throws; JSON.parse(content) is null
UpstreamFailures ==
  {"network_error", "not_ok", "no_choices", "empty_choices", "empty_content",
   "unparsable_content", "null_content"}

\* ValidOperation without the allow-list
ValidOperation_Trusting(parsedOperation, hasMask) == parsedOperation

\* validOperations.includes(parsed.operation) ? parsed.operation : (hasMask ? ... : ...)
ValidOperation(parsedOperation, hasMask) ==
  IF parsedOperation \in OperationTypes
    THEN parsedOperation
    ELSE (IF hasMask THEN "inpaint_replace" ELSE "style_transfer")

\* v || fallback, for a string-or-undefined v
OrElse(v, fallback) == IF Truthy(v) THEN v ELSE fallback

\* the AgentResponse callOpenAI builds from the parsed object
AgentResponseOf(parsed, hasMask) ==
  [operation |-> ValidOperation(parsed.operation, hasMask),
   needsMask |-> (parsed.needsMask = <<TRUE>>),
   params |-> (IF parsed.params # << >> THEN parsed.params[1] ELSE parsed),
   prompt |-> OrElse(parsed.prompt, ""),
   response |-> OrElse(parsed.response, "Got it! Click Generate to apply changes.")]

\* [threw |-> TRUE] when the call throws, the AgentResponse in value otherwise
callOpenAI(upstream, hasMask) ==
  IF upstream.kind \in UpstreamFailures
    THEN [threw |-> TRUE]
    ELSE [threw |-> FALSE, value |-> AgentResponseOf(upstream.parsed, hasMask)]

(***************************************************************************)
(* route.ts: POST.  body.kind is "unparsable" when request.json() throws.  *)
(***************************************************************************)
ErrorReply(status, message, called) ==
  [status |-> status, body |-> [error |-> message], invoked |-> called]

\* POST that answers an upstream failure with the rule-based result
POST_FallsBack(body, openaiKey, upstream) ==
  IF body.kind = "unparsable" THEN ErrorReply(500, "Failed to process instruction", {})
  ELSE IF ~Truthy(body.userMessage) THEN ErrorReply(400, "User message is required", {})
  ELSE IF Truthy(openaiKey) /\ ~callOpenAI(upstream, body.hasMask).threw
    THEN [status |-> 200, body |-> callOpenAI(upstream, body.hasMask).value,
          invoked |-> {"callOpenAI"}]
  ELSE [status |-> 200,
        body |-> mockAgentResponse(body.userMessage, body.currentParams, body.hasMask),
        invoked |-> (IF Truthy(openaiKey) THEN {"callOpenAI"} ELSE {}) \cup {"mockAgentResponse"}]

\* POST without the userMessage check
POST_NoMessageCheck(body, openaiKey, upstream) ==
  IF body.kind = "unparsable" THEN ErrorReply(500, "Failed to process instruction", {})
  ELSE IF Truthy(openaiKey)
    THEN (IF callOpenAI(upstream, body.hasMask).threw
            THEN ErrorReply(500, "Failed to process instruction", {"callOpenAI"})
            ELSE [status |-> 200, body |-> callOpenAI(upstream, body.hasMask).value,
                  invoked |-> {"callOpenAI"}])
  ELSE IF body.userMessage = undefined
    THEN ErrorReply(500, "Failed to process instruction", {"mockAgentResponse"})
  ELSE [status |-> 200,
        body |-> mockAgentResponse(body.userMessage, body.currentParams, body.hasMask),
        invoked |-> {"mockAgentResponse"}]

POST(body, openaiKey, upstream) ==
  IF body.kind = "unparsable" THEN ErrorReply(500, "Failed to process instruction", {})
  ELSE IF ~Truthy(body.userMessage) THEN ErrorReply(400, "User message is required", {})
  ELSE IF Truthy(openaiKey)
    THEN (IF callOpenAI(upstream, body.hasMask).threw
            THEN ErrorReply(500, "Failed to process instruction", {"callOpenAI"})
            ELSE [status |-> 200, body |-> callOpenAI(upstream, body.hasMask).value,
                  invoked |-> {"callOpenAI"}])
  ELSE [status |-> 200,
        body |-> mockAgentResponse(body.userMessage, body.currentParams, body.hasMask),
        invoked |-> {"mockAgentResponse"}]

(***************************************************************************)
(* The image-generation route (POST of /api/generate) and generateImage of *)
(* lib/bria.  body.kind is "unparsable" when request.json() throws; params *)
(* is << >> when the body has none and <<p>> otherwise.  What the provider *)
(* answers is an input (bria), and so is the Math.random() draw of the     *)
(* placeholder (seed).  The prompt text the route builds is passed on and  *)
(* decides nothing here: it is left out.                                   *)
(***************************************************************************)
\* fetch rejects; !response.ok
BriaFailures == {"network_error", "not_ok"}

\* mockGenerateResponse: the placeholder answer, no request to the provider
mockGenerateResponse(seed) ==
  [threw |-> FALSE, value |-> [imageUrl |-> "https://picsum.photos/seed/" \o ToString(seed) \o "/1024/1024",
                   seed |-> seed],
   fetched |-> {}]

\* generateWithGenFill and generateStandard: one fetch of the endpoint
FetchBria(endpoint, bria) ==
  IF bria.kind \in BriaFailures
    THEN [threw |-> TRUE, fetched |-> {endpoint},
          message |-> IF bria.kind = "not_ok" THEN "API error: 500" ELSE "fetch failed"]
    ELSE [threw |-> FALSE, value |-> [imageUrl |-> bria.imageUrl], fetched |-> {endpoint}]

\* generateImage: the placeholder without a token, /gen_fill when image && mask
generateImage(image, mask, apiToken, bria, seed) ==
  IF ~Truthy(apiToken) THEN mockGenerateResponse(seed)
  ELSE IF Truthy(image) /\ Truthy(mask) THEN FetchBria("/gen_fill", bria)
  ELSE FetchBria("/image/generate", bria)

\* operation && [...].includes(operation)
IsInpaintOperation(operation) ==
  Truthy(operation) /\ operation \in {"inpaint_remove", "inpaint_replace", "inpaint_add"}

MaskGuidance ==
  "Please draw on the area you want to edit first! Use the brush tool to mark the region, then try again."

\* the answer of the route once generateImage returned or threw
GenerateAnswer(outcome) ==
  IF outcome.threw
    THEN [status |-> 500, body |-> [error |-> outcome.message],
          invoked |-> {"generateImage"} \cup outcome.fetched]
    ELSE [status |-> 200, body |-> outcome.value,
          invoked |-> {"generateImage"} \cup outcome.fetched]

\* the generate route without the mask validation
GeneratePOST_NoMaskCheck(body, apiToken, bria, seed) ==
  IF body.kind = "unparsable" THEN ErrorReply(500, "Failed to generate image", {})
  ELSE IF ~Truthy(body.image) THEN ErrorReply(400, "Image is required", {})
  ELSE IF body.params = << >> THEN ErrorReply(400, "FIBO parameters are required", {})
  ELSE GenerateAnswer(generateImage(body.image, body.mask, apiToken, bria, seed))

\* POST of the generate route
GeneratePOST(body, apiToken, bria, seed) ==
  IF body.kind = "unparsable" THEN ErrorReply(500, "Failed to generate image", {})
  ELSE IF ~Truthy(body.image) THEN ErrorReply(400, "Image is required", {})
  ELSE IF body.params = << >> THEN ErrorReply(400, "FIBO parameters are required", {})
  ELSE IF IsInpaintOperation(body.operation) /\ ~Truthy(body.mask)
    THEN [status |-> 400, body |-> [error |-> MaskGuidance, needsMask |-> TRUE], invoked |-> {}]
  ELSE GenerateAnswer(generateImage(body.image, body.mask, apiToken, bria, seed))

(***************************************************************************)
(* State.                                                                  *)
(***************************************************************************)
VARIABLES
  input,    \* the arguments of the rule-based resolver: userMessage, currentParams, hasMask
  result,   \* what the resolver returned for input, NotCalled before it ran
  request,  \* the last request to /api/agent: body, configured credential, upstream answer
  reply,    \* the route's answer to it: status and JSON body
  invoked,  \* the resolvers the route called while it handled the request
  generation, \* the last request to /api/generate with the route's answer to it
  session   \* the editor page: its React state and the agent turn in flight

vars == <<input, result, request, reply, invoked, generation, session>>

NotCalled == [called |-> FALSE]
NoInput == [called |-> FALSE]
NoRequest == [sent |-> FALSE]
NoReply == [sent |-> FALSE]

\* the agent route is not in use
RouteIdle == request = NoRequest /\ reply = NoReply /\ invoked = {}

\* the resolver is not applied on its own
ResolverIdle == input = NoInput /\ result = NotCalled

NoSession == [open |-> FALSE]

\* the generate route and the editor page are not in use
RestIdle == generation = NoRequest /\ session = NoSession

(***************************************************************************)
(* Inputs.  A message is one to MaxPhrases phrases of one lexicon, joined  *)
(* by single spaces; each lexicon holds the trigger words of one branch    *)
(* together with words of the branches that compete with it.               *)
(***************************************************************************)
RECURSIVE Joined(_, _)
Joined(lex, n) ==
  IF n <= 1 THEN lex
  ELSE LET shorter == Joined(lex, n - 1)
       IN shorter \cup {m \o " " \o w : m \in shorter, w \in lex}

RemovalLexicon ==
  {"remove", "Delete", "ERASE", "get rid of", "clear", "eliminate", "cleared",
   "change it to", "add", "zoom in", "create"}

ReplaceLexicon ==
  {"replace", "Change", "swap", "turn", "convert", "to", "into", "with",
   "remove", "return", "\n"}

AddLexicon ==
  {"add", "Put", "place", "insert", "include", "adding", "flowers here",
   "rotate", "create", "erase", "swap with"}

Lexicons == {RemovalLexicon, ReplaceLexicon, AddLexicon}

MockMessages == {""} \cup UNION {Joined(lex, MaxPhrases) : lex \in Lexicons}

\* params a session can hold after earlier turns
MaskedParams ==
  [DEFAULT_FIBO_PARAMS EXCEPT
     !.camera = [yaw |-> -170, pitch |-> 10, roll |-> -5, fov |-> 50],
     !.color_palette = "muted",
     !.edit_mode = "mask",
     !.subject_description = "old subject"]

FullParams ==
  [DEFAULT_FIBO_PARAMS EXCEPT
     !.camera = [yaw |-> 180, pitch |-> 0, roll |-> 0, fov |-> 120],
     !.lighting = "backlit",
     !.edit_mode = "full",
     !.subject_description = ""]

ParamSamples == {DEFAULT_FIBO_PARAMS, MaskedParams, FullParams}

(***************************************************************************)
(* The resolver applied to one input.                                      *)
(***************************************************************************)
InitMock ==
  /\ input \in [userMessage : MockMessages, currentParams : ParamSamples, hasMask : BOOLEAN]
  /\ result = NotCalled
  /\ RouteIdle
  /\ RestIdle

Resolve ==
  /\ result = NotCalled
  /\ \E call \in {mockAgentResponseCall(input.userMessage, input.currentParams, input.hasMask)} :
       /\ result' = call.returned
       /\ input' = [input EXCEPT !.currentParams = call.argument]
  /\ UNCHANGED <<request, reply, invoked, generation, session>>

NextMock == Resolve

SpecMock == InitMock /\ [][NextMock]_vars

(***************************************************************************)
(* Turn after turn: each result's params is the next turn's currentParams. *)
(***************************************************************************)
FoldMessages ==
  {"rotate left", "rotate hard left", "Rotate slightly LEFT", "rotate right",
   "pan hard right", "zoom in", "zoom out", "remove the car on the left"}

\* camera values within the bounds of types.ts
FoldStarts ==
  {[DEFAULT_FIBO_PARAMS EXCEPT !.camera.yaw = y, !.camera.fov = f] :
     y \in {-170, 0}, f \in {40, 120}}

InitFold ==
  /\ input \in [userMessage : FoldMessages, currentParams : FoldStarts, hasMask : BOOLEAN]
  /\ result = NotCalled
  /\ RouteIdle
  /\ RestIdle

NextTurn(message, mask) ==
  /\ result # NotCalled
  /\ input' = [userMessage |-> message, currentParams |-> result.params, hasMask |-> mask]
  /\ result' = NotCalled
  /\ UNCHANGED <<request, reply, invoked, generation, session>>

NextFold == Resolve \/ \E message \in FoldMessages, mask \in BOOLEAN : NextTurn(message, mask)

SpecFold == InitFold /\ [][NextFold]_vars

(***************************************************************************)
(* The resolver applied to messages of the later arms of the chain and of  *)
(* the draw-first override: whole sentences, and one to MaxPhrases phrases *)
(* of a lexicon.                                                           *)
(***************************************************************************)
ScenarioMessages ==
  {"", "remove the car from the street", "zoom in closer", "rotate the style",
   "Design a LOGO"}

\* the words of the camera arm, of the creation arm and of the draw-first override
ArmLexicons ==
  {{"zoom", "Rotate", "tilt", "angle", "pan", "style", "change", "add", "panorama"},
   {"create", "Generate", "imagine", "make me a", "design", "make me", "designs", "zoom", "put"},
   {"remove", "the car", "from", "change", "to", "a boat", "add", "here", "\t"}}

ArmMessages == ScenarioMessages \cup UNION {Joined(lex, MaxPhrases) : lex \in ArmLexicons}

InitArms ==
  /\ input \in [userMessage : ArmMessages, currentParams : ParamSamples, hasMask : BOOLEAN]
  /\ result = NotCalled
  /\ RouteIdle
  /\ RestIdle

SpecArms == InitArms /\ [][NextMock]_vars

(***************************************************************************)
(* The resolver applied to yaw values the route lets through: the agent    *)
(* route passes currentParams on as it arrives, so yaw is any number.      *)
(***************************************************************************)
YawMessages ==
  {"rotate left", "rotate hard left", "rotate slightly left", "rotate right",
   "pan hard right", "a slight turn right", "left then right", "tilt left",
   "copyright notice"}

InitYaw ==
  /\ input \in [userMessage : YawMessages,
                currentParams :
                  {[DEFAULT_FIBO_PARAMS EXCEPT !.camera.yaw = y] :
                     y \in {-300, -200, -180, -150, 0, 150, 180, 200, 300}},
                hasMask : BOOLEAN]
  /\ result = NotCalled
  /\ RouteIdle
  /\ RestIdle

SpecYaw == InitYaw /\ [][NextMock]_vars

(***************************************************************************)
(* Round trips: a first resolution of a message with camera, lighting or   *)
(* color keywords, then resolutions of further messages on its params.     *)
(***************************************************************************)
FirstMessages ==
  {"zoom in warm", "rotate hard left dramatic", "remove the car from the street",
   "add some flowers here", "make it neon and cool"}

\* messages without a camera, lighting or color keyword, one for each arm of the chain
SecondMessages ==
  {"", "tilt the view", "remove the car", "replace the sky with stars", "add a tree",
   "create a poster"}

InitRoundTrip ==
  /\ input \in [userMessage : FirstMessages \cup SecondMessages, currentParams : ParamSamples,
                hasMask : BOOLEAN]
  /\ result = NotCalled
  /\ RouteIdle
  /\ RestIdle

NextRoundTrip ==
  Resolve \/ \E message \in SecondMessages, mask \in BOOLEAN : NextTurn(message, mask)

SpecRoundTrip == InitRoundTrip /\ [][NextRoundTrip]_vars

(***************************************************************************)
(* The resolver applied to messages that join an instruction of one arm of *)
(* the chain with camera, lighting and color keywords, on fov values at    *)
(* and next to the two clamps.                                             *)
(***************************************************************************)
\* one instruction for each arm: removal, replace, add, camera, creation, default
ArmInstructions ==
  {"remove the car", "replace the sky with stars", "add a tree", "pan", "create a poster",
   "make it"}

KeywordPhrases ==
  {"", "left", "slight right", "hard left then right", "tilt left", "zoom in", "closer",
   "zoom out", "wider", "zoom in wider", "Zoom Out closer", "soft dramatic", "dramatic soft",
   "neon natural", "daylight", "warm cool", "cold vibrant", "vibrant warm"}

KeywordMessages == {a \o " " \o k : a \in ArmInstructions, k \in KeywordPhrases}

InitKeywords ==
  /\ input \in [userMessage : KeywordMessages,
                currentParams :
                  {[p EXCEPT !.camera.fov = f] :
                     p \in {DEFAULT_FIBO_PARAMS, FullParams}, f \in {10, 20, 110, 120}},
                hasMask : BOOLEAN]
  /\ result = NotCalled
  /\ RouteIdle
  /\ RestIdle

SpecKeywords == InitKeywords /\ [][NextMock]_vars

(***************************************************************************)
(* The resolver applied to messages whose object phrase the arm's match    *)
(* finds, does not find, or finds to be white space.                       *)
(***************************************************************************)
ExtractMessages ==
  {"replace the sky with a sunset", "Change the car to a boat", "swap it into  gold ",
   "change to", "replace the sky with", "convert this into ", "turn to the left",
   "replace with to",
   "remove the car", "remove ", "remove  ", "delete the  ", "Erase \t",
   "add a tree", "add  ", "put a  "}

InitExtract ==
  /\ input \in [userMessage : ExtractMessages, currentParams : ParamSamples, hasMask : BOOLEAN]
  /\ result = NotCalled
  /\ RouteIdle
  /\ RestIdle

SpecExtract == InitExtract /\ [][NextMock]_vars

(***************************************************************************)
(* Requests to /api/agent.                                                 *)
(***************************************************************************)
RouteMessages == {undefined, "", "remove the car", "add flowers here", "zoom in closer"}

RequestBodies ==
  {[kind |-> "unparsable"]}
    \cup [kind : {"object"}, userMessage : RouteMessages,
          currentParams : {DEFAULT_FIBO_PARAMS}, hasMask : BOOLEAN]

\* process.env.AZURE_OPENAI_API_KEY: not set, set to the empty string, set
CredentialValues == {undefined, "", "azure-key"}

UpstreamParams ==
  {[DEFAULT_FIBO_PARAMS EXCEPT !.edit_mode = e, !.subject_description = "car"] :
     e \in {"mask", "full"}}

ParsedBodies ==
  [operation : OperationTypes \cup {undefined, "INPAINT_REMOVE"},
   needsMask : {<< >>, <<TRUE>>, <<FALSE>>},
   params : {<< >>} \cup {<<p>> : p \in UpstreamParams},
   prompt : {undefined, "Remove car from the marked area"},
   response : {undefined, "I'll remove the car."}]

Upstreams ==
  [kind : UpstreamFailures, parsed : {<< >>}] \cup [kind : {"object"}, parsed : ParsedBodies]

InitRoute == ResolverIdle /\ RouteIdle /\ RestIdle

\* one request, handled from receipt to answer; the route keeps nothing between requests
AgentPOST(body, openaiKey, upstream) ==
  /\ request = NoRequest
  /\ \E answer \in {POST(body, openaiKey, upstream)} :
        /\ request' = [body |-> body, openaiKey |-> openaiKey, upstream |-> upstream]
        /\ reply' = [status |-> answer.status, body |-> answer.body]
        /\ invoked' = answer.invoked
  /\ UNCHANGED <<input, result, generation, session>>

NextRoute ==
  \E body \in RequestBodies, openaiKey \in CredentialValues, upstream \in Upstreams :
    AgentPOST(body, openaiKey, upstream)

SpecRoute == InitRoute /\ [][NextRoute]_vars

(***************************************************************************)
(* Requests to /api/generate.                                              *)
(***************************************************************************)
\* mask: absent, null (the page sends maskData, null when nothing is drawn), "", drawn
GenerateBodies ==
  {[kind |-> "unparsable"]}
    \cup [kind : {"object"},
          image : {undefined, "", "data:image/png;base64,AAAA"},
          mask : {undefined, null, "", "data:image/png;base64,MASK"},
          params : {<< >>, <<DEFAULT_FIBO_PARAMS>>},
          operation : OperationTypes \cup {undefined},
          prompt : {undefined, "Remove car from the marked area"}]

\* what the provider answers to the fetch
BriaAnswers ==
  [kind : BriaFailures] \cup [kind : {"ok"}, imageUrl : {"https://bria.example/result.png"}]

InitGenerate == ResolverIdle /\ RouteIdle /\ RestIdle

\* one request, handled from receipt to answer
GenerateRequest(body, apiToken, bria, seed) ==
  /\ generation = NoRequest
  /\ \E answer \in {GeneratePOST(body, apiToken, bria, seed)} :
       generation' = [body |-> body, apiToken |-> apiToken, bria |-> bria, seed |-> seed,
                      status |-> answer.status, reply |-> answer.body,
                      invoked |-> answer.invoked]
  /\ UNCHANGED <<input, result, request, reply, invoked, session>>

\* process.env.BRIA_API_TOKEN is not set or set; seed is the draw of Math.random()
NextGenerate ==
  \E body \in GenerateBodies, apiToken \in {undefined, "bria-token"}, bria \in BriaAnswers,
     seed \in {0, 999999} :
    GenerateRequest(body, apiToken, bria, seed)

SpecGenerate == InitGenerate /\ [][NextGenerate]_vars

(***************************************************************************)
(* The editor page.  session holds its React state; a field that is null   *)
(* or an object is << >> when null and <<v>> otherwise, images and masks   *)
(* are null or a data URL.  chatLast is the last entry of chatHistory,     *)
(* "none" while the history is empty.  turn is the agent request in        *)
(* flight: the page passes isProcessingChat to the chat panel and one      *)
(* message is in flight at a time.  A file upload is taken as one step,    *)
(* from the choice of the file to the load of its thumbnail.               *)
(***************************************************************************)
defaultParams ==
  [subject_description |-> "",
   camera |-> [pitch |-> 0, yaw |-> 0, roll |-> 0, fov |-> 50],
   lighting |-> "natural_daylight",
   composition |-> "rule_of_thirds",
   color_palette |-> "natural",
   realism_level |-> "high",
   edit_mode |-> "mask",
   output_format |-> "png"]

\* the useState initial values
InitialSession ==
  [open |-> TRUE,
   originalImage |-> null,
   currentImage |-> null,
   maskData |-> null,
   layers |-> << >>,
   activeLayerId |-> << >>,
   filters |-> "defaultFilters",
   params |-> defaultParams,
   pendingOperation |-> << >>,
   isProcessingChat |-> FALSE,
   isGenerating |-> FALSE,
   chatLast |-> "none",
   turn |-> << >>]

\* JSON drops the fields of an object that are undefined: { ...prev, ...sent }
\* takes a field from sent when sent has it
Spread(prev, sent) ==
  [f \in DOMAIN prev \cup DOMAIN sent |->
     IF f \in DOMAIN sent /\ (f = "camera" \/ sent[f] # undefined) THEN sent[f] ELSE prev[f]]

\* handleFileUpload with a file chosen
handleFileUpload(state, dataUrl) ==
  [state EXCEPT
     !.originalImage = dataUrl,
     !.currentImage = dataUrl,
     !.layers = << [name |-> "Original", type |-> "original"] >>,
     !.activeLayerId = << 1 >>,
     !.chatLast = "Image uploaded! Draw on the areas you want to edit, then describe what changes you want."]

\* handleSendMessage up to the fetch: the early return without an image, or the
\* request with the params and mask of this render
handleSendMessage(state, message) ==
  IF ~Truthy(state.currentImage) /\ ~Truthy(state.originalImage)
    THEN [state EXCEPT !.chatLast = "Please upload an image first."]
    ELSE [state EXCEPT
            !.chatLast = message,
            !.isProcessingChat = TRUE,
            !.turn = << [kind |-> "object", userMessage |-> message,
                         currentParams |-> state.params,
                         hasMask |-> Truthy(state.maskData)] >>]

\* the feedback line for a resolved operation
FeedbackOf(data) ==
  IF data.needsMask THEN "Draw on the area first!"
  ELSE IF Truthy(data.operation) THEN data.operation \o ": Click \"Generate\" when ready!"
  ELSE data.response

\* handleSendMessage whose catch drops the pending operation
TurnEnds_ClearsPending(state, fetched) ==
  IF fetched.kind = "rejected" \/ fetched.status \notin 200..299
    THEN [state EXCEPT
            !.pendingOperation = << >>,
            !.chatLast = "Sorry, I had trouble understanding that. Please try again.",
            !.isProcessingChat = FALSE,
            !.turn = << >>]
    ELSE [state EXCEPT
            !.params = Spread(@, fetched.body.params),
            !.pendingOperation = << [operation |-> fetched.body.operation,
                                     prompt |-> fetched.body.prompt,
                                     needsMask |-> fetched.body.needsMask] >>,
            !.chatLast = FeedbackOf(fetched.body),
            !.isProcessingChat = FALSE,
            !.turn = << >>]

\* handleSendMessage from the settled fetch to the end of finally
TurnEnds(state, fetched) ==
  IF fetched.kind = "rejected" \/ fetched.status \notin 200..299
    THEN [state EXCEPT
            !.chatLast = "Sorry, I had trouble understanding that. Please try again.",
            !.isProcessingChat = FALSE,
            !.turn = << >>]
    ELSE [state EXCEPT
            !.params = Spread(@, fetched.body.params),
            !.pendingOperation = << [operation |-> fetched.body.operation,
                                     prompt |-> fetched.body.prompt,
                                     needsMask |-> fetched.body.needsMask] >>,
            !.chatLast = FeedbackOf(fetched.body),
            !.isProcessingChat = FALSE,
            !.turn = << >>]

\* handleMaskChange that drops the pending operation once its mask arrived
handleMaskChange_DropsPending(state, newMaskData) ==
  IF Truthy(newMaskData) /\ state.pendingOperation # << >> /\ state.pendingOperation[1].needsMask
    THEN [state EXCEPT
            !.maskData = newMaskData,
            !.pendingOperation = << >>,
            !.chatLast = "Great! You've marked the area. Click **Generate** to apply the edit!"]
    ELSE [state EXCEPT !.maskData = newMaskData]

\* handleMaskChange
handleMaskChange(state, newMaskData) ==
  IF Truthy(newMaskData) /\ state.pendingOperation # << >> /\ state.pendingOperation[1].needsMask
    THEN [state EXCEPT
            !.maskData = newMaskData,
            !.pendingOperation = << [@[1] EXCEPT !.needsMask = FALSE] >>,
            !.chatLast = "Great! You've marked the area. Click **Generate** to apply the edit!"]
    ELSE [state EXCEPT !.maskData = newMaskData]

\* handleReset; it has no setPendingOperation
handleReset(state) ==
  [state EXCEPT
     !.originalImage = null,
     !.currentImage = null,
     !.maskData = null,
     !.layers = << >>,
     !.activeLayerId = << >>,
     !.filters = "defaultFilters",
     !.params = defaultParams,
     !.chatLast = "none"]

EditorIdle == ResolverIdle /\ RouteIdle /\ generation = NoRequest

InitEditor == EditorIdle /\ session = InitialSession

\* "" is answered 400 by the route
EditorMessages == {"remove the car", ""}

\* what the upstream service answers when the route calls it
EditorUpstreams ==
  {[kind |-> "not_ok", parsed |-> << >>],
   [kind |-> "object",
    parsed |-> [operation |-> "inpaint_replace", needsMask |-> <<TRUE>>,
                params |-> <<[DEFAULT_FIBO_PARAMS EXCEPT !.subject_description = "sky",
                                                         !.edit_mode = "mask"]>>,
                prompt |-> "Replace the sky", response |-> undefined]]}

Upload ==
  /\ session' = handleFileUpload(session, "data:image/png;base64,AAAA")
  /\ UNCHANGED <<input, result, request, reply, invoked, generation>>

SendMessage(message) ==
  /\ ~session.isProcessingChat
  /\ session' = handleSendMessage(session, message)
  /\ UNCHANGED <<input, result, request, reply, invoked, generation>>

\* the fetch rejects: the agent route is not reached
TurnRejected ==
  /\ session.turn # << >>
  /\ session' = TurnEnds(session, [kind |-> "rejected"])
  /\ request' = NoRequest
  /\ reply' = NoReply
  /\ invoked' = {}
  /\ UNCHANGED <<input, result, generation>>

\* the agent route answers the request in flight
TurnAnswered(openaiKey, upstream) ==
  /\ session.turn # << >>
  /\ \E answer \in {POST(session.turn[1], openaiKey, upstream)} :
       /\ request' = [body |-> session.turn[1], openaiKey |-> openaiKey, upstream |-> upstream]
       /\ reply' = [status |-> answer.status, body |-> answer.body]
       /\ invoked' = answer.invoked
       /\ session' = TurnEnds(session, [kind |-> "answered", status |-> answer.status,
                                         body |-> answer.body])
  /\ UNCHANGED <<input, result, generation>>

MaskChange(newMaskData) ==
  /\ session' = handleMaskChange(session, newMaskData)
  /\ UNCHANGED <<input, result, request, reply, invoked, generation>>

Reset ==
  /\ session' = handleReset(session)
  /\ UNCHANGED <<input, result, request, reply, invoked, generation>>

NextEditor ==
  \/ Upload
  \/ \E message \in EditorMessages : SendMessage(message)
  \/ TurnRejected
  \/ \E openaiKey \in {undefined, "azure-key"}, upstream \in EditorUpstreams : TurnAnswered(openaiKey, upstream)
  \/ \E newMaskData \in {null, "data:image/png;base64,MASK"} : MaskChange(newMaskData)
  \/ Reset

SpecEditor == InitEditor /\ [][NextEditor]_vars

(***************************************************************************)
(* The mask canvas of the editor (AdvancedCanvasEditor).  content is what  *)
(* the mask canvas shows: "" when blank, and one character for each stroke *)
(* drawn on it otherwise.  history holds the saved contents, historyIndex  *)
(* counts from 0 as in the code and is -1 for no entry.  strokes counts    *)
(* the strokes completed since the image was loaded.  A handler yields the *)
(* canvas it leaves and what it passes to onMaskChange: << >> when it does *)
(* not call it, <<v>> otherwise.  A stroke is taken as one step, from      *)
(* pointer down to pointer up, drawn with the brush.                       *)
(***************************************************************************)
HistoryLimit == 50

\* the useState initial values, which the image's onload sets again
InitialCanvas ==
  [content |-> "", history |-> << >>, historyIndex |-> -1, hasMask |-> FALSE, strokes |-> 0]

\* canvas.toDataURL of the exported mask
MaskUrl(content) == "data:image/png;base64," \o content

\* saveToHistory: the entries after historyIndex are dropped, and the oldest one
\* beyond the limit
saveToHistory(canvas) ==
  LET newHistory == Append(SubSeq(canvas.history, 1, canvas.historyIndex + 1), canvas.content)
      kept == IF Len(newHistory) > HistoryLimit THEN Tail(newHistory) ELSE newHistory
  IN [canvas EXCEPT !.history = kept, !.historyIndex = Len(kept) - 1]

\* exportMask with the hasMask of the render its caller closed over
exportMask(hasMask, content) == IF ~hasMask THEN null ELSE MaskUrl(content)

\* drawStroke from pointer down on
drawStroke(canvas) ==
  [canvas EXCEPT !.content = @ \o SubSeq("123456789", canvas.strokes + 1, canvas.strokes + 1),
                 !.hasMask = TRUE,
                 !.strokes = @ + 1]

\* handlePointerUp after a stroke: saveToHistory, then exportMask
handlePointerUp(canvas) ==
  [canvas |-> saveToHistory(canvas),
   emitted |-> << exportMask(canvas.hasMask, canvas.content) >>]

\* clearMask
clearMask(canvas) ==
  [canvas |-> saveToHistory([canvas EXCEPT !.content = "", !.hasMask = FALSE]),
   emitted |-> << null >>]

\* canUndo and canRedo of the imperative handle
canUndo(canvas) == canvas.historyIndex > 0
canRedo(canvas) == canvas.historyIndex < Len(canvas.history) - 1

\* undo; exportMask reads the hasMask of the render undo was created in
undo(canvas) ==
  IF canvas.historyIndex <= 0 THEN [canvas |-> canvas, emitted |-> << >>]
  ELSE IF canvas.historyIndex - 1 < 0
    THEN [canvas |-> [canvas EXCEPT !.content = "", !.hasMask = FALSE,
                                   !.historyIndex = @ - 1],
          emitted |-> << exportMask(canvas.hasMask, "") >>]
  ELSE [canvas |-> [canvas EXCEPT !.content = canvas.history[canvas.historyIndex],
                                 !.hasMask = TRUE,
                                 !.historyIndex = @ - 1],
        emitted |-> << exportMask(canvas.hasMask, canvas.history[canvas.historyIndex]) >>]

\* redo
redo(canvas) ==
  IF canvas.historyIndex >= Len(canvas.history) - 1 THEN [canvas |-> canvas, emitted |-> << >>]
  ELSE [canvas |-> [canvas EXCEPT !.content = canvas.history[canvas.historyIndex + 2],
                                 !.hasMask = TRUE,
                                 !.historyIndex = @ + 1],
        emitted |-> << exportMask(canvas.hasMask, canvas.history[canvas.historyIndex + 2]) >>]

(***************************************************************************)
(* The editor page with its canvas and its Generate button.  generating is *)
(* the request to /api/generate in flight, << >> when there is none: the   *)
(* button is disabled while isGenerating.  The load of an image (of the    *)
(* result, of the thumbnail) is taken as part of the step that sets it.    *)
(***************************************************************************)
StudioSession == InitialSession @@ [generating |-> << >>, canvas |-> InitialCanvas]

\* the canvas element is rendered while imageUrl is set
Mounted(state) == Truthy(state.currentImage)

\* the canvas after the page rendered a new currentImage: the onload of the
\* image effect, which runs when imageUrl changed to an image
Rendered(prev, next) ==
  IF Truthy(next.currentImage) /\ next.currentImage # prev.currentImage
    THEN [next EXCEPT !.canvas = InitialCanvas]
    ELSE next

\* the page after a canvas handler ran: onMaskChange is handleMaskChange
Handled(state, done) ==
  IF done.emitted = << >>
    THEN [state EXCEPT !.canvas = done.canvas]
    ELSE handleMaskChange([state EXCEPT !.canvas = done.canvas], done.emitted[1])

\* pendingOperation?.operation, pendingOperation?.prompt
PendingField(state, field) ==
  IF state.pendingOperation = << >> THEN undefined ELSE state.pendingOperation[1][field]

\* handleGenerate that goes by the needsMask flag stored with the pending operation
handleGenerate_TrustsFlag(state) ==
  IF ~Truthy(state.currentImage) /\ ~Truthy(state.originalImage) THEN state
  ELSE IF IsInpaintOperation(PendingField(state, "operation"))
            /\ state.pendingOperation[1].needsMask
    THEN [state EXCEPT !.chatLast = "**Please draw on the area first!**"]
  ELSE [state EXCEPT
          !.isGenerating = TRUE,
          !.chatLast = "Generating your edit...",
          !.generating =
            << [kind |-> "object",
                image |-> IF Truthy(state.currentImage) THEN state.currentImage
                          ELSE state.originalImage,
                mask |-> state.maskData,
                params |-> << state.params >>,
                operation |-> PendingField(state, "operation"),
                prompt |-> PendingField(state, "prompt")] >>]

\* handleGenerate up to the fetch: the early returns, or the request with the
\* image, mask, params and pending operation of this render
handleGenerate(state) ==
  IF ~Truthy(state.currentImage) /\ ~Truthy(state.originalImage) THEN state
  ELSE IF IsInpaintOperation(PendingField(state, "operation")) /\ ~Truthy(state.maskData)
    THEN [state EXCEPT !.chatLast = "**Please draw on the area first!**"]
  ELSE [state EXCEPT
          !.isGenerating = TRUE,
          !.chatLast = "Generating your edit...",
          !.generating =
            << [kind |-> "object",
                image |-> IF Truthy(state.currentImage) THEN state.currentImage
                          ELSE state.originalImage,
                mask |-> state.maskData,
                params |-> << state.params >>,
                operation |-> PendingField(state, "operation"),
                prompt |-> PendingField(state, "prompt")] >>]

\* handleGenerate from the settled fetch to the end of finally
GenerateEnds(state, fetched) ==
  IF fetched.kind = "rejected" \/ fetched.status \notin 200..299
    THEN [state EXCEPT
            !.chatLast = "Error",
            !.isGenerating = FALSE,
            !.generating = << >>]
    ELSE Rendered(state,
           [(IF Mounted(state) THEN Handled(state, clearMask(state.canvas)) ELSE state) EXCEPT
              !.currentImage = fetched.body.imageUrl,
              !.layers = Append(@, [name |-> "Edit", type |-> "edit"]),
              !.activeLayerId = << Len(state.layers) + 1 >>,
              !.chatLast = "Done! Your edit has been applied. You can continue editing or start fresh.",
              !.maskData = null,
              !.pendingOperation = << >>,
              !.isGenerating = FALSE,
              !.generating = << >>])

\* strokes on one image, layers of one session
MaxStrokes == 2
MaxLayers == 2

InitStudio == EditorIdle /\ session = StudioSession

\* the agent route answers the turn in flight; no OPENAI key is configured and
\* the rule-based resolver answers
TurnResolved ==
  /\ session.turn # << >>
  /\ \E answer \in {POST(session.turn[1], undefined, [kind |-> "not_ok", parsed |-> << >>])} :
       session' = TurnEnds(session, [kind |-> "answered", status |-> answer.status,
                                     body |-> answer.body])
  /\ UNCHANGED <<input, result, request, reply, invoked, generation>>

LoadUpload ==
  /\ session' = Rendered(session, handleFileUpload(session, "data:image/png;base64,AAAA"))
  /\ UNCHANGED <<input, result, request, reply, invoked, generation>>

\* a completed stroke; the canvas takes no pointer events while disabled
Stroke ==
  /\ Mounted(session)
  /\ ~session.isGenerating
  /\ session.canvas.strokes < MaxStrokes
  /\ session' = Handled(session, handlePointerUp(drawStroke(session.canvas)))
  /\ UNCHANGED <<input, result, request, reply, invoked, generation>>

Undo ==
  /\ Mounted(session)
  /\ session' = Handled(session, undo(session.canvas))
  /\ UNCHANGED <<input, result, request, reply, invoked, generation>>

Redo ==
  /\ Mounted(session)
  /\ session' = Handled(session, redo(session.canvas))
  /\ UNCHANGED <<input, result, request, reply, invoked, generation>>

\* a click on Generate: disabled={!originalImage || isGenerating}
Generate ==
  /\ Truthy(session.originalImage)
  /\ ~session.isGenerating
  /\ Len(session.layers) < MaxLayers
  /\ session' = handleGenerate(session)
  /\ UNCHANGED <<input, result, request, reply, invoked, generation>>

\* the fetch rejects: the generate route is not reached
GenerateRejected ==
  /\ session.generating # << >>
  /\ session' = GenerateEnds(session, [kind |-> "rejected"])
  /\ generation' = NoRequest
  /\ UNCHANGED <<input, result, request, reply, invoked>>

\* the generate route answers the request in flight
GenerateAnswered(apiToken, bria, seed) ==
  /\ session.generating # << >>
  /\ \E answer \in {GeneratePOST(session.generating[1], apiToken, bria, seed)} :
       session' = GenerateEnds(session, [kind |-> "answered", status |-> answer.status,
                                         body |-> answer.body])
  /\ UNCHANGED <<input, result, request, reply, invoked, generation>>

\* the messages are an inpaint instruction and a full-image instruction; the
\* provider is the placeholder (BRIA_API_TOKEN not set), fails, or answers
NextStudio ==
  \/ LoadUpload
  \/ \E message \in {"remove the car", "make it warm"} : SendMessage(message)
  \/ TurnRejected
  \/ TurnResolved
  \/ Stroke
  \/ Undo
  \/ Redo
  \/ Generate
  \/ GenerateRejected
  \/ \E provider \in {<<undefined, [kind |-> "not_ok"]>>,
                       <<"bria-token", [kind |-> "not_ok"]>>,
                       <<"bria-token", [kind |-> "ok",
                                        imageUrl |-> "https://bria.example/result.png"]>>} :
       GenerateAnswered(provider[1], provider[2], 0)
  \/ Reset

SpecStudio == InitStudio /\ [][NextStudio]_vars

(***************************************************************************)
(* Properties of the rule-based resolver (SpecMock).                       *)
(***************************************************************************)
Resolved == result # NotCalled

InpaintOperations == {"inpaint_remove", "inpaint_replace", "inpaint_add"}
FullImageOperations == {"style_transfer", "generate_new", "camera_adjust"}

\* the message, lower-cased, has one of the words as a whole word
HasWholeWord(message, words) == TestWord(toLowerCase(message), words)

HasRemovalVerb(message) ==
  HasWholeWord(message, {"remove", "delete", "erase", "get rid of", "clear", "eliminate"})

HasReplaceVerb(message) ==
  HasWholeWord(message, {"replace", "change", "swap", "turn", "convert"})

HasConnector(message) == HasWholeWord(message, {"to", "into", "with"})

\* a replace verb as a whole word and, later on the same line, a connector as a whole word
HasReplaceThenConnector(message) ==
  TestWordThenWord(toLowerCase(message),
                   {"replace", "change", "swap", "turn", "convert"}, {"to", "into", "with"})

HasAddVerb(message) == HasWholeWord(message, {"add", "put", "place", "insert", "include"})

\* C1: the resolver returns needsMask true exactly when the returned operation is
\* inpaint_remove, inpaint_replace or inpaint_add and hasMask is false
C1_NeedsMaskIff ==
  Resolved =>
    (result.needsMask <=> (result.operation \in InpaintOperations /\ ~input.hasMask))

C1_Witness ==
  /\ Resolved
  /\ result.needsMask
  /\ result.operation = "inpaint_replace"
  /\ ~input.hasMask

\* C2: the returned edit_mode is "mask" exactly for the three inpaint operations and
\* "full" exactly for the other three, whatever edit_mode currentParams carried
C2_EditModeMatchesOperation ==
  Resolved =>
    /\ result.operation \in OperationTypes
    /\ (result.params.edit_mode = "mask" <=> result.operation \in InpaintOperations)
    /\ (result.params.edit_mode = "full" <=> result.operation \in FullImageOperations)

C2_Witness ==
  /\ Resolved
  /\ input.currentParams.edit_mode = "mask"
  /\ result.operation = "camera_adjust"
  /\ result.params.edit_mode = "full"

\* C3: a message with a removal verb as a whole word, in any letter case, resolves to
\* inpaint_remove for both mask states, whatever other trigger words it holds
C3_RemovalFirst ==
  (Resolved /\ HasRemovalVerb(input.userMessage)) => result.operation = "inpaint_remove"

C3_Witness ==
  /\ Resolved
  /\ input.userMessage = "ERASE change it to"
  /\ input.hasMask
  /\ result.operation = "inpaint_remove"

\* C4 as stated: every message with a replace verb and a connector word resolves to
\* inpaint_replace
C4_Original ==
  (Resolved /\ HasReplaceVerb(input.userMessage) /\ HasConnector(input.userMessage))
    => result.operation = "inpaint_replace"

\* C4 amended: a message without a removal verb in which a replace verb is followed,
\* later on the same line, by a connector word resolves to inpaint_replace for both
\* mask states
C4_ReplaceThenConnector ==
  (Resolved /\ ~HasRemovalVerb(input.userMessage) /\ HasReplaceThenConnector(input.userMessage))
    => result.operation = "inpaint_replace"

C4_Witness ==
  /\ Resolved
  /\ input.userMessage = "Change into"
  /\ ~input.hasMask
  /\ result.operation = "inpaint_replace"

\* C5: a message that matches the add pattern and neither the removal nor the replace
\* pattern resolves to inpaint_add with a mask and to style_transfer without one
C5_AddDependsOnMask ==
  (/\ Resolved
   /\ HasAddVerb(input.userMessage)
   /\ ~HasRemovalVerb(input.userMessage)
   /\ ~HasReplaceThenConnector(input.userMessage))
    => result.operation = (IF input.hasMask THEN "inpaint_add" ELSE "style_transfer")

C5_Witness ==
  /\ Resolved
  /\ input.userMessage = "add flowers here"
  /\ ~input.hasMask
  /\ result.operation = "style_transfer"
  /\ result.params.subject_description = "flowers"

(***************************************************************************)
(* Properties of a sequence of resolutions (SpecFold).                     *)
(***************************************************************************)
CameraInBounds(camera) == camera.yaw \in -180..180 /\ camera.fov \in 10..120

\* C6: from in-bounds camera values, every resolution of a sequence that feeds each
\* result's params into the next returns yaw within [-180,180] and fov within [10,120];
\* "rotate hard left" at yaw -170 returns yaw -180
C6_CameraStaysInBounds ==
  /\ CameraInBounds(input.currentParams.camera)
  /\ Resolved => CameraInBounds(result.params.camera)
  /\ (/\ Resolved
      /\ input.userMessage = "rotate hard left"
      /\ input.currentParams.camera.yaw = -170) => result.params.camera.yaw = -180

C6_Witness ==
  /\ Resolved
  /\ input.userMessage = "rotate left"
  /\ input.currentParams.camera.yaw = -180
  /\ input.currentParams.camera.fov = 25
  /\ result.params.camera.yaw = -180

(***************************************************************************)
(* Properties of the agent route and of the LLM-backed resolver            *)
(* (SpecRoute).                                                            *)
(***************************************************************************)
Answered == request # NoRequest

\* the request passed the userMessage check
MessageGiven == Answered /\ request.body.kind = "object" /\ Truthy(request.body.userMessage)

\* callOpenAI ran and returned an AgentResponse built from a parsed object
LLMResolved == MessageGiven /\ Truthy(request.openaiKey) /\ request.upstream.kind = "object"

\* callOpenAI ran and the upstream call failed
LLMFailed == MessageGiven /\ Truthy(request.openaiKey) /\ request.upstream.kind \in UpstreamFailures

\* params.edit_mode of a JSON body, undefined when the object has no such field
EditModeIn(params) == IF "edit_mode" \in DOMAIN params THEN params.edit_mode ELSE undefined

\* C7: callOpenAI returns one of the six operations: the upstream operation when it is
\* one of them, otherwise inpaint_replace with a mask and style_transfer without
C7_OperationAllowListed ==
  LLMResolved =>
    /\ reply.status = 200
    /\ reply.body.operation \in OperationTypes
    /\ reply.body.operation =
         (IF request.upstream.parsed.operation \in OperationTypes
            THEN request.upstream.parsed.operation
            ELSE IF request.body.hasMask THEN "inpaint_replace" ELSE "style_transfer")

C7_Witness ==
  /\ LLMResolved
  /\ request.upstream.parsed.operation = "INPAINT_REMOVE"
  /\ request.body.hasMask
  /\ reply.body.operation = "inpaint_replace"

\* C8: callOpenAI returns needsMask true exactly when the returned operation is an
\* inpaint operation and hasMask is false, and params.edit_mode agrees with the
\* operation's class
C8_LLMHonorsMaskInvariant ==
  LLMResolved =>
    /\ (reply.body.needsMask <=>
          (reply.body.operation \in InpaintOperations /\ ~request.body.hasMask))
    /\ (EditModeIn(reply.body.params) = "mask" <=> reply.body.operation \in InpaintOperations)
    /\ (EditModeIn(reply.body.params) = "full" <=> reply.body.operation \in FullImageOperations)

\* C9: with a credential configured a failed upstream call is answered with status 500
\* and an error body, the rule-based resolver is not called for that request, and the
\* rule-based resolver is called only when no credential is configured
C9_UpstreamFailureSurfaces ==
  /\ LLMFailed =>
       /\ reply.status = 500
       /\ DOMAIN reply.body = {"error"}
       /\ invoked = {"callOpenAI"}
  /\ "mockAgentResponse" \in invoked => (Answered /\ ~Truthy(request.openaiKey))

C9_Witness ==
  /\ LLMFailed
  /\ request.upstream.kind = "unparsable_content"
  /\ reply.status = 500
  /\ "mockAgentResponse" \notin invoked

\* C10: a request whose userMessage is missing or empty is answered with status 400
\* before either resolver is called, and an upstream failure is answered with a
\* different status
C10_EmptyMessageRejected ==
  /\ (/\ Answered
      /\ request.body.kind = "object"
      /\ request.body.userMessage \in {undefined, ""}) =>
       /\ reply.status = 400
       /\ DOMAIN reply.body = {"error"}
       /\ invoked = {}
  /\ LLMFailed => reply.status # 400

C10_Witness ==
  /\ Answered
  /\ request.body.kind = "object"
  /\ request.body.userMessage = ""
  /\ Truthy(request.openaiKey)
  /\ request.upstream.kind = "object"
  /\ reply.status = 400
  /\ invoked = {}

(***************************************************************************)
(* Properties of the generate route (SpecGenerate).                        *)
(***************************************************************************)
Generated == generation # NoRequest

\* the request carries an image and params
CarriesImageAndParams ==
  /\ Generated
  /\ generation.body.kind = "object"
  /\ generation.body.image \notin {undefined, null, ""}
  /\ generation.body.params # << >>

MaskAttached == generation.body.mask \notin {undefined, null, ""}

\* C11: a request with an image and params whose operation is one of the three
\* inpaint operations and that has no mask is answered 400 with the guidance
\* message and needsMask true, and generateImage is not called
C11_MaskRequiredAtGeneration ==
  (CarriesImageAndParams /\ generation.body.operation \in InpaintOperations /\ ~MaskAttached)
    => /\ generation.status = 400
       /\ generation.reply = [error |-> MaskGuidance, needsMask |-> TRUE]
       /\ generation.invoked = {}

C11_Witness ==
  /\ CarriesImageAndParams
  /\ generation.body.operation = "inpaint_replace"
  /\ generation.body.mask = null
  /\ generation.apiToken = "bria-token"
  /\ generation.status = 400

\* the request passed the route's validation and reached the provider
Accepted ==
  CarriesImageAndParams /\ Truthy(generation.apiToken) /\ "generateImage" \in generation.invoked

\* C17: with a token configured, an accepted request goes to /gen_fill when its
\* operation is an inpaint operation and to /image/generate when it is one of
\* the other three, with or without a mask
C17_RoutesByOperation ==
  Accepted =>
    /\ generation.body.operation \in InpaintOperations
         => generation.invoked = {"generateImage", "/gen_fill"}
    /\ generation.body.operation \in FullImageOperations
         => generation.invoked = {"generateImage", "/image/generate"}

(***************************************************************************)
(* Further properties of the rule-based resolver (SpecMock, SpecArms).     *)
(***************************************************************************)
\* C12: the resolver returns for every message, the empty one included, and the
\* operation it returns is one of the six; the empty message resolves to
\* style_transfer with the empty string as subject_description
C12_ResolverCannotFail ==
  Resolved =>
    /\ result.operation \in OperationTypes
    /\ input.userMessage = ""
         => /\ result.operation = "style_transfer"
            /\ result.params.subject_description = ""

C12_Witness ==
  /\ Resolved
  /\ input.userMessage = ""
  /\ input.currentParams.subject_description = "old subject"
  /\ result.operation = "style_transfer"
  /\ result.params.subject_description = ""

\* C13: a call of the resolver leaves the currentParams object it was given, its
\* camera included, with the field values it had before the call
C13_ArgumentUntouched ==
  [][(result = NotCalled /\ result' # NotCalled) => input' = input]_vars

\* a call whose changes, camera among them, show in the returned params alone
C13_Witness ==
  /\ Resolved
  /\ result.params.camera # input.currentParams.camera
  /\ result.params.subject_description # input.currentParams.subject_description
  /\ input.currentParams = MaskedParams

\* the name the draw-first instruction gives the object
ObjectName(subject) == IF subject \in {undefined, ""} THEN "the area" ELSE subject

\* C14: when needsMask is true the response is the draw-first instruction naming
\* subject_description, or "the area" when that is empty or absent; and the prompt
\* of a removal or replace message is the one the call with the other mask state
\* returns
C14_DrawFirstOverride ==
  Resolved =>
    /\ result.needsMask
         => result.response =
              "Please draw on " \o ObjectName(result.params.subject_description)
                \o " first!\n\nUse the brush tool to mark the area, then click \"Generate\"."
    /\ (HasRemovalVerb(input.userMessage) \/ HasReplaceThenConnector(input.userMessage))
         => result.prompt =
              mockAgentResponse(input.userMessage, input.currentParams, ~input.hasMask).prompt
    /\ (input.userMessage = "remove the car from the street" /\ ~input.hasMask)
         => /\ result.operation = "inpaint_remove"
            /\ result.params.subject_description = "car"
            /\ result.needsMask

C14_Witness ==
  /\ Resolved
  /\ input.userMessage = "change to"
  /\ input.currentParams = FullParams
  /\ result.operation = "inpaint_replace"
  /\ result.needsMask
  /\ result.prompt = "change to"
  /\ result.response =
       "Please draw on the area first!\n\nUse the brush tool to mark the area, then click \"Generate\"."

(***************************************************************************)
(* Properties of round trips (SpecRoundTrip).                              *)
(***************************************************************************)
CameraKeywords == {"left", "right", "zoom in", "closer", "zoom out", "wider"}
LightingKeywords == {"dramatic", "soft", "natural", "daylight", "neon"}
ColorKeywords == {"warm", "cool", "cold", "vibrant"}

\* the message, lower-cased, contains one of the keywords
HasKeyword(message, keywords) == \E k \in keywords : includes(toLowerCase(message), k)

\* C15: a message without a camera, lighting or color keyword returns camera,
\* lighting, color_palette, composition, realism_level and output_format as they
\* came in; every message returns pitch, roll, composition, realism_level and
\* output_format as they came in
C15_UntouchedFieldsRoundTrip ==
  Resolved =>
    /\ ~HasKeyword(input.userMessage, CameraKeywords \cup LightingKeywords \cup ColorKeywords)
         => /\ result.params.camera = input.currentParams.camera
            /\ result.params.lighting = input.currentParams.lighting
            /\ result.params.color_palette = input.currentParams.color_palette
    /\ result.params.camera.pitch = input.currentParams.camera.pitch
    /\ result.params.camera.roll = input.currentParams.camera.roll
    /\ result.params.composition = input.currentParams.composition
    /\ result.params.realism_level = input.currentParams.realism_level
    /\ result.params.output_format = input.currentParams.output_format

\* a message without keywords resolved on the params "zoom in warm" returned
C15_Witness ==
  /\ Resolved
  /\ input.userMessage = "remove the car"
  /\ input.currentParams.camera = [yaw |-> -170, pitch |-> 10, roll |-> -5, fov |-> 35]
  /\ input.currentParams.color_palette = "warm"
  /\ input.currentParams.subject_description = "old subject"
  /\ result.params.camera = input.currentParams.camera
  /\ result.params.color_palette = "warm"
  /\ result.params.subject_description = "car"

(***************************************************************************)
(* Properties of the editor page (SpecEditor).                             *)
(***************************************************************************)
\* this step ends the turn in flight; request and reply then tell how the fetch
\* settled, NoReply when it rejected
TurnEnding == session.turn # << >> /\ session'.turn = << >>

\* it ends with a failure: the route was not reached or its status is not 2xx
TurnFailing == TurnEnding /\ (reply' = NoReply \/ reply'.status \notin 200..299)

\* C16: a turn that fails leaves params and the pending operation as they were;
\* the step that ends a turn changes params only when the turn succeeds, and then
\* to the previous params with the returned params folded in
C16_FailedTurnKeepsState ==
  [][/\ TurnFailing =>
          /\ session'.params = session.params
          /\ session'.pendingOperation = session.pendingOperation
     /\ (TurnEnding /\ session'.params # session.params)
          => /\ ~TurnFailing
             /\ session'.params = Spread(session.params, reply'.body.params)
    ]_vars

\* a turn has failed with status 500 after an earlier turn had left a pending
\* operation and params other than the initial ones
C16_Witness ==
  /\ session.open
  /\ session.turn = << >>
  /\ session.chatLast = "Sorry, I had trouble understanding that. Please try again."
  /\ reply # NoReply
  /\ reply.status = 500
  /\ session.params # defaultParams
  /\ session.pendingOperation # << >>

(***************************************************************************)
(* Properties of the yaw step on any yaw (SpecYaw).                        *)
(***************************************************************************)
\* the message turns the camera: "left" without "tilt", or "right" without
\* "copyright" and "tilt"
TurnsCamera(message) ==
  \/ HasKeyword(message, {"left"}) /\ ~HasKeyword(message, {"tilt"})
  \/ HasKeyword(message, {"right"}) /\ ~HasKeyword(message, {"copyright", "tilt"})

\* C18: for a message that turns the camera the returned yaw lies within
\* [-180, 180], whatever number the yaw of currentParams was
C18_YawClampedBothSides ==
  (Resolved /\ TurnsCamera(input.userMessage)) => result.params.camera.yaw \in -180..180

(***************************************************************************)
(* Properties of the camera and creation arms (SpecArms).                  *)
(***************************************************************************)
\* none of the removal, replace and add patterns matches the message
NoEditPattern(message) ==
  ~HasRemovalVerb(message) /\ ~HasReplaceThenConnector(message) /\ ~HasAddVerb(message)

\* a camera word, and none of add, remove, change, style
IsCameraMessage(message) ==
  /\ HasWholeWord(message, {"zoom", "rotate", "tilt", "angle", "pan"})
  /\ ~HasWholeWord(message, {"add", "remove", "change", "style"})

\* C19: the operation is camera_adjust exactly when no edit pattern matches and
\* the message has a camera word and none of add, remove, change, style; then
\* subject_description is returned as it came in and needsMask is false;
\* "zoom in closer" on fov 50 yields camera_adjust with fov 35
C19_CameraAdjustExactly ==
  Resolved =>
    /\ result.operation = "camera_adjust"
         <=> (NoEditPattern(input.userMessage) /\ IsCameraMessage(input.userMessage))
    /\ result.operation = "camera_adjust"
         => /\ result.params.subject_description = input.currentParams.subject_description
            /\ ~result.needsMask
    /\ (input.userMessage = "zoom in closer" /\ input.currentParams.camera.fov = 50)
         => /\ result.operation = "camera_adjust"
            /\ result.params.camera.fov = 35

C19_Witness ==
  /\ Resolved
  /\ input.userMessage = "zoom in closer"
  /\ input.currentParams = MaskedParams
  /\ ~input.hasMask
  /\ result.operation = "camera_adjust"
  /\ result.params.camera.fov = 35
  /\ result.params.subject_description = "old subject"
  /\ ~result.needsMask

\* C20: a message with creation vocabulary that no earlier arm takes resolves to
\* generate_new without a mask and to style_transfer with one, subject_description
\* and prompt being the raw message; generate_new is returned without a mask only
C20_GenerateNewNeedsNoMask ==
  Resolved =>
    /\ result.operation = "generate_new" => ~input.hasMask
    /\ (/\ HasWholeWord(input.userMessage,
                        {"create", "generate", "imagine", "make me a", "design"})
        /\ NoEditPattern(input.userMessage)
        /\ ~IsCameraMessage(input.userMessage))
         => /\ result.operation = (IF input.hasMask THEN "style_transfer" ELSE "generate_new")
            /\ result.params.subject_description = input.userMessage
            /\ result.prompt = input.userMessage

C20_Witness ==
  /\ Resolved
  /\ input.userMessage = "Design a LOGO"
  /\ input.hasMask
  /\ result.operation = "style_transfer"
  /\ result.params.subject_description = "Design a LOGO"
  /\ result.prompt = "Design a LOGO"

(***************************************************************************)
(* Properties of the camera, lighting and color instructions               *)
(* (SpecKeywords).                                                         *)
(***************************************************************************)
\* C21: the returned camera, lighting and color_palette are those the same
\* message returns for the other value of hasMask, and those the same keyword
\* phrase returns when it follows the camera instruction instead, for either
\* value of hasMask: every arm of the chain returns what the camera arm returns
C21_PostProcessingIndependent ==
  Resolved =>
    \A arm \in ArmInstructions, phrase \in KeywordPhrases :
      input.userMessage = arm \o " " \o phrase =>
        \A other \in {mockAgentResponse(input.userMessage, input.currentParams, ~input.hasMask),
                       mockAgentResponse("pan " \o phrase, input.currentParams, TRUE),
                       mockAgentResponse("pan " \o phrase, input.currentParams, FALSE)} :
          /\ other.params.camera = result.params.camera
          /\ other.params.lighting = result.params.lighting
          /\ other.params.color_palette = result.params.color_palette

\* a removal message that contains "left" shifted yaw, as the camera message did
C21_Witness ==
  /\ Resolved
  /\ input.userMessage = "remove the car left"
  /\ ~input.hasMask
  /\ result.operation = "inpaint_remove"
  /\ input.currentParams.camera.yaw = 0
  /\ result.params.camera.yaw = -30
  /\ mockAgentResponse("pan left", input.currentParams, TRUE).operation = "camera_adjust"
  /\ mockAgentResponse("pan left", input.currentParams, TRUE).params.camera.yaw = -30

\* one step down with floor 10, one step up with ceiling 120
OneStepIn(fov) == IF fov - 15 < 10 THEN 10 ELSE fov - 15
OneStepOut(fov) == IF fov + 15 > 120 THEN 120 ELSE fov + 15

ZoomsIn(message) == HasKeyword(message, {"zoom in", "closer"})
ZoomsOut(message) == HasKeyword(message, {"zoom out", "wider"})

\* C22 as stated: a message with "zoom in" or "closer" returns fov one step down
\* with floor 10, a message with "zoom out" or "wider" returns fov one step up
\* with ceiling 120, a message with none of the four returns fov as it came in
C22_Original ==
  Resolved =>
    /\ ZoomsIn(input.userMessage)
         => result.params.camera.fov = OneStepIn(input.currentParams.camera.fov)
    /\ ZoomsOut(input.userMessage)
         => result.params.camera.fov = OneStepOut(input.currentParams.camera.fov)
    /\ ~ZoomsIn(input.userMessage) /\ ~ZoomsOut(input.userMessage)
         => result.params.camera.fov = input.currentParams.camera.fov

\* C22, amended: a message with "zoom in" or "closer" and neither "zoom out" nor
\* "wider" returns fov one step down with floor 10; one with "zoom out" or "wider"
\* and neither "zoom in" nor "closer" returns fov one step up with ceiling 120;
\* one with phrases of both kinds returns fov one step down with floor 10 and
\* then one step up with ceiling 120; one with none returns fov as it came in
C22_FovSteps ==
  Resolved =>
    result.params.camera.fov =
      CASE ZoomsIn(input.userMessage) /\ ZoomsOut(input.userMessage) ->
             OneStepOut(OneStepIn(input.currentParams.camera.fov))
        [] ZoomsIn(input.userMessage) -> OneStepIn(input.currentParams.camera.fov)
        [] ZoomsOut(input.userMessage) -> OneStepOut(input.currentParams.camera.fov)
        [] OTHER -> input.currentParams.camera.fov

\* "closer" from fov 20 stopped at the floor, in a removal
C22_Witness ==
  /\ Resolved
  /\ input.userMessage = "remove the car closer"
  /\ input.currentParams.camera.fov = 20
  /\ result.params.camera.fov = 10

\* the lighting checks and the color checks, in the order the code makes them
LightingOrder ==
  << <<{"dramatic"}, "dramatic_side">>, <<{"soft"}, "studio_soft">>,
     <<{"natural", "daylight"}, "natural_daylight">>, <<{"neon"}, "neon">> >>

ColorOrder ==
  << <<{"warm"}, "warm">>, <<{"cool", "cold"}, "cool">>, <<{"vibrant"}, "vibrant">> >>

\* the value of the check made last among those whose keyword the message contains
LastChecked(message, order, unchanged) ==
  IF \A i \in DOMAIN order : ~HasKeyword(message, order[i][1])
    THEN unchanged
    ELSE order[Max({i \in DOMAIN order : HasKeyword(message, order[i][1])})][2]

\* C23: the returned lighting is that of the lighting keyword checked last in the
\* order dramatic, soft, natural/daylight, neon among those the message
\* contains, the returned color_palette that of the color keyword checked last
\* in the order warm, cool/cold, vibrant; without a keyword the field is returned
\* as it came in
C23_LastCheckWins ==
  Resolved =>
    /\ result.params.lighting =
         LastChecked(input.userMessage, LightingOrder, input.currentParams.lighting)
    /\ result.params.color_palette =
         LastChecked(input.userMessage, ColorOrder, input.currentParams.color_palette)

\* "neon natural": neon comes first in the message and is checked last
C23_Witness ==
  /\ Resolved
  /\ input.userMessage = "make it neon natural"
  /\ input.currentParams.lighting = "backlit"
  /\ result.params.lighting = "neon"
  /\ mockAgentResponse("make it soft dramatic", input.currentParams, input.hasMask)
       .params.lighting = "studio_soft"
  /\ mockAgentResponse("make it vibrant warm", input.currentParams, input.hasMask)
       .params.color_palette = "vibrant"

(***************************************************************************)
(* Properties of the object phrase extraction (SpecExtract).               *)
(***************************************************************************)
\* C24: a message without a removal verb in which a replace verb is followed by
\* a connector resolves to inpaint_replace; when the two-group match fails the
\* subject_description of currentParams and the raw message as prompt are
\* returned, when it succeeds subject_description is "Replace {from} with {to}";
\* "replace the sky with a sunset" returns "Replace sky with a sunset" and, with
\* a mask, needsMask false
C24_ReplaceExtraction ==
  (Resolved /\ ~HasRemovalVerb(input.userMessage) /\ HasReplaceThenConnector(input.userMessage))
    => /\ result.operation = "inpaint_replace"
       /\ \E match \in {ReplaceMatch(toLowerCase(input.userMessage))} :
            IF match = << >>
              THEN /\ result.params.subject_description = input.currentParams.subject_description
                   /\ result.prompt = input.userMessage
              ELSE result.params.subject_description
                     = "Replace " \o match[1] \o " with " \o match[2]
       /\ input.userMessage = "replace the sky with a sunset"
            => /\ result.params.subject_description = "Replace sky with a sunset"
               /\ input.hasMask => ~result.needsMask

\* nothing follows the connector: the match fails and the subject is kept
C24_Witness ==
  /\ Resolved
  /\ input.userMessage = "replace the sky with"
  /\ ReplaceMatch(toLowerCase(input.userMessage)) = << >>
  /\ input.currentParams.subject_description = "old subject"
  /\ result.operation = "inpaint_replace"
  /\ result.params.subject_description = "old subject"
  /\ result.prompt = "replace the sky with"

\* the match of the removal arm or of the add arm, << >> for null and in the other arms
ObjectPhraseMatch(message) ==
  IF HasRemovalVerb(message) THEN RemovalMatch(toLowerCase(message))
  ELSE IF ~HasReplaceThenConnector(message) /\ HasAddVerb(message)
    THEN AddMatch(toLowerCase(message))
  ELSE << >>

\* C25: in the removal and add arms, an object phrase that is empty after
\* trimming leaves subject_description as it was in currentParams
C25_EmptyExtractionKeepsSubject ==
  Resolved =>
    \E match \in {ObjectPhraseMatch(input.userMessage)} :
      (match # << >> /\ trim(match[1]) = "")
        => result.params.subject_description = input.currentParams.subject_description

(***************************************************************************)
(* Properties of the editor page with its canvas (SpecStudio).             *)
(***************************************************************************)
\* the request to /api/generate in flight
InFlight == session.generating[1]

\* C26: whatever the events before it, a request to /api/generate is in flight
\* with operation inpaint_remove, inpaint_replace or inpaint_add only with a
\* mask attached
C26_NoInpaintRequestWithoutMask ==
  session.generating # << >> =>
    (InFlight.operation \in InpaintOperations => InFlight.mask \notin {undefined, null, ""})

\* Generate was clicked with a removal pending whose needsMask flag is off and
\* no mask: the page asks for the mask and sends nothing
C26_Witness ==
  /\ session.generating = << >>
  /\ session.pendingOperation # << >>
  /\ session.pendingOperation[1].operation = "inpaint_remove"
  /\ ~session.pendingOperation[1].needsMask
  /\ session.maskData = null
  /\ Truthy(session.currentImage)
  /\ session.chatLast = "**Please draw on the area first!**"

\* a stroke was completed and its mask reached the page
MaskDrawn ==
  /\ session.generating = << >>
  /\ session'.canvas.strokes = session.canvas.strokes + 1
  /\ Truthy(session'.maskData)

\* a request to /api/generate was sent
GenerateSent == session.generating = << >> /\ session'.generating # << >>

\* C27: a stroke drawn while the pending operation waits for a mask turns its
\* needsMask flag off and leaves its operation and prompt as they were; a
\* request to /api/generate carries the operation and prompt that are pending
\* and the mask of the page, and sending it starts no agent turn
C27_MaskArrivesPromptKept ==
  [][/\ (MaskDrawn /\ session.pendingOperation # << >> /\ session.pendingOperation[1].needsMask)
          => session'.pendingOperation
               = << [session.pendingOperation[1] EXCEPT !.needsMask = FALSE] >>
     /\ (GenerateSent /\ session.pendingOperation # << >>)
          => /\ session'.generating[1].operation = session.pendingOperation[1].operation
             /\ session'.generating[1].prompt = session.pendingOperation[1].prompt
             /\ session'.generating[1].mask = session.maskData
             /\ session'.turn = session.turn
             /\ session'.pendingOperation = session.pendingOperation]_vars

\* the removal resolved without a mask is in flight with the mask drawn afterwards
C27_Witness ==
  /\ session.generating # << >>
  /\ InFlight.operation = "inpaint_remove"
  /\ InFlight.prompt = "Remove car from the marked area and fill with natural background"
  /\ InFlight.mask = MaskUrl("1")
  /\ session.pendingOperation = << [operation |-> "inpaint_remove", prompt |-> InFlight.prompt,
                                    needsMask |-> FALSE] >>
  /\ session.chatLast = "Generating your edit..."

\* the generation in flight ended, with the route's success or without
GenerationSucceeds ==
  /\ session.generating # << >>
  /\ session'.generating = << >>
  /\ session'.chatLast = "Done! Your edit has been applied. You can continue editing or start fresh."

GenerationFails ==
  /\ session.generating # << >>
  /\ session'.generating = << >>
  /\ session'.chatLast = "Error"

\* the pending operation is not the one the request in flight was sent with
PendingIsNewer ==
  /\ session.pendingOperation # << >>
  /\ <<session.pendingOperation[1].operation, session.pendingOperation[1].prompt>>
       # <<InFlight.operation, InFlight.prompt>>

\* C28: the success of a generation leaves in place a pending operation that was
\* resolved after the request was sent, and a failed generation leaves the mask
\* and the pending operation in place
C28_PendingSurvivesGeneration ==
  [][/\ (GenerationSucceeds /\ PendingIsNewer)
          => session'.pendingOperation = session.pendingOperation
     /\ GenerationFails
          => /\ session'.pendingOperation = session.pendingOperation
             /\ session'.maskData = session.maskData]_vars

\* the canvas shows the stroke completed last, saved as the newest entry
StrokeOnTop ==
  /\ Mounted(session)
  /\ session.canvas.strokes >= 1
  /\ session.canvas.hasMask
  /\ session.canvas.content # ""
  /\ session.canvas.historyIndex = Len(session.canvas.history) - 1
  /\ session.canvas.history[Len(session.canvas.history)] = session.canvas.content

\* C29: the history holds at most 50 entries and its index stays within
\* -1..length-1; with the last stroke on the canvas undo is available and leaves
\* the content from before that stroke, reporting no mask when that is the blank
\* canvas, and redo after it leaves the stroke again
C29_EveryStrokeUndoable ==
  /\ Len(session.canvas.history) <= HistoryLimit
  /\ session.canvas.historyIndex \in -1..(Len(session.canvas.history) - 1)
  /\ StrokeOnTop =>
       /\ canUndo(session.canvas)
       /\ \E undone \in {undo(session.canvas).canvas} :
            /\ undone.content
                 = SubSeq(session.canvas.content, 1, Len(session.canvas.content) - 1)
            /\ undone.content = "" => ~undone.hasMask
            /\ redo(undone).canvas.content = session.canvas.content

\* C30: handleReset leaves the image, the mask, the layers, the filters, the
\* params and the chat history at their initial values and no pending operation
C30_ResetReturnsToInitial ==
  [][Reset =>
       /\ session'.originalImage = InitialSession.originalImage
       /\ session'.currentImage = InitialSession.currentImage
       /\ session'.maskData = InitialSession.maskData
       /\ session'.layers = InitialSession.layers
       /\ session'.filters = InitialSession.filters
       /\ session'.params = InitialSession.params
       /\ session'.chatLast = InitialSession.chatLast
       /\ session'.pendingOperation = InitialSession.pendingOperation]_vars

====
